---- MODULE Spec2Model ----
(***************************************************************************)
(* A model of gkarray.GKArray (src/gkarray/gkarray.py): the Greenwald-     *)
(* Khanna quantile sketch with its buffer of incoming values, its          *)
(* compaction merge_compress, the cross-sketch merge and the quantile      *)
(* queries.  Two sketch objects live side by side so that merge has a      *)
(* partner.  Every call is one action; a call that raises leaves in `last` *)
(* the name of the exception and in `sk` the fields as the code left them  *)
(* at the raise.                                                           *)
(*                                                                         *)
(* Numbers: the values added are small integers; eps and q are rationals   *)
(* [num, den] whose floats are exact (halves, quarters), so that the       *)
(* code's float expressions int(1.0/eps), floor(2.0*eps*(n-1)),            *)
(* int(eps*(n-1)) and int(q*(n-1)+1) equal the integer divisions used      *)
(* here.  The running mean is kept as a normalised rational.                *)
(*                                                                         *)
(* Spec has the calls add, size, quantile, quantiles and merge.  SpecNew   *)
(* adds the construction of a sketch from any eps, 0 and -1/2 included.    *)
(* SpecDirect adds the direct call of the public method merge_compress     *)
(* with a list of entries, the only call that stores entries a sketch has  *)
(* not counted.                                                            *)
(***************************************************************************)
EXTENDS Integers, Sequences, FiniteSets, TLC

\* ------------------------------------------------------------------ bounds
\* The most values one sketch ingests.
MaxN == 3

\* The most entries a sketch holds after a direct call of merge_compress.
MaxEntries == 2

\* The values add() is called with.
Vals == {1, 2}

\* The two sketch objects.
Sketches == {1, 2}

\* The error bounds a sketch is constructed with: 1/2 and 1/4.
EpsSet == {[num |-> 1, den |-> 2], [num |-> 1, den |-> 4]}

\* The q values queried: -1/2, 0, 1/2, 1, 3/2.
Qs == {[num |-> k, den |-> 2] : k \in -1..3}

\* The q_values lists handed to quantiles(): sorted, unsorted, with and
\* without elements outside [0,1].
QLists ==
  LET q(k) == [num |-> k, den |-> 2]
  IN  { <<>>, <<q(1)>>, <<q(3)>>, <<q(0), q(2)>>, <<q(2), q(0)>>,
        <<q(-1), q(1)>>, <<q(1), q(3)>>, <<q(3), q(-1)>> }

\* ------------------------------------------------------------- arithmetic
RECURSIVE GCD(_, _)
GCD(a, b) == IF b = 0 THEN a ELSE GCD(b, a % b)

Abs(x) == IF x < 0 THEN -x ELSE x

\* The rational n/d (d > 0) in lowest terms.
Rat(n, d) ==
  LET g == GCD(Abs(n), d)
  IN  IF n = 0 THEN [num |-> 0, den |-> 1] ELSE [num |-> n \div g, den |-> d \div g]

RatLess(a, b) == a.num * b.den < b.num * a.den
RatLeq(a, b) == a.num * b.den <= b.num * a.den

\* int(a/b) of Python, b # 0: the quotient cut towards zero.
IntTrunc(a, b) ==
  IF (a >= 0) = (b > 0) THEN Abs(a) \div Abs(b) ELSE -(Abs(a) \div Abs(b))

\* a % b of Python, b # 0: the remainder has the sign of b.
PyMod(a, b) == IF b > 0 THEN a % b ELSE -((-a) % (-b))

\* float('+inf') and float('-inf'): beyond every value and every sum of values.
PosInf == 1000000
NegInf == -1000000

\* np.nan, and a number, as what a query returns.
NaN == [nan |-> TRUE, num |-> 0, den |-> 1]
Num(r) == [nan |-> FALSE, num |-> r.num, den |-> r.den]
IntNum(x) == [nan |-> FALSE, num |-> x, den |-> 1]

\* Python's <= on floats: False as soon as one side is NaN.
ValLeq(a, b) == ~a.nan /\ ~b.nan /\ a.num * b.den <= b.num * a.den

\* ------------------------------------------------------------------ state
Entry(val, g, delta) == [val |-> val, g |-> g, delta |-> delta]

\* GKArray.__init__
NewSketch(eps) ==
  [eps |-> eps, entries |-> <<>>, incoming |-> <<>>,
   min |-> PosInf, max |-> NegInf, n |-> 0, sum |-> 0,
   avg |-> [num |-> 0, den |-> 1]]

VARIABLES
  sk,        \* sk[i]: the fields of sketch object i
  last,      \* the last call: its name, arguments, outcome and return value
  stream,    \* history: stream[i], the values sketch i stands for, in arrival order
  absorbed   \* history: absorbed[i], how many of them came in through merge

vars == <<sk, last, stream, absorbed>>

NoQ == [num |-> 0, den |-> 1]

\* The record of a call; entries is the list handed to merge_compress.
Call(op, self, other, val, q, qs, status, ret) ==
  [op |-> op, self |-> self, other |-> other, val |-> val, q |-> q, qs |-> qs,
   entries |-> <<>>, status |-> status, ret |-> ret]

Init ==
  /\ sk \in [Sketches -> {NewSketch(e) : e \in EpsSet}]
  /\ last = Call("init", 0, 0, 0, NoQ, <<>>, "ok", <<>>)
  /\ stream = [i \in Sketches |-> <<>>]
  /\ absorbed = [i \in Sketches |-> 0]

\* --------------------------------------------------------- merge_compress
\* The list merge_compress sorts: the raw numbers of self.incoming as add()
\* stored them, followed by a clone of each entry handed in.
RawItem(v) == [raw |-> TRUE, val |-> v, g |-> 0, delta |-> 0]
EntryItem(e) == [raw |-> FALSE, val |-> e.val, g |-> e.g, delta |-> e.delta]

Candidates(s, entries) ==
  [k \in 1..Len(s.incoming) |-> RawItem(s.incoming[k])]
    \o [k \in 1..Len(entries) |-> EntryItem(entries[k])]

\* The key function x.val of the sort exists on an Entry and on no number.
HasVal(x) == ~x.raw

\* sorted(incoming, key=lambda x: x.val): stable, ascending by val.
RECURSIVE InsertSorted(_, _)
InsertSorted(sorted, x) ==
  IF sorted = <<>> THEN <<x>>
  ELSE IF x.val < sorted[Len(sorted)].val
       THEN Append(InsertSorted(SubSeq(sorted, 1, Len(sorted) - 1), x), sorted[Len(sorted)])
       ELSE Append(sorted, x)

RECURSIVE SortedByVal(_)
SortedByVal(list) ==
  IF list = <<>> THEN <<>>
  ELSE InsertSorted(SortedByVal(SubSeq(list, 1, Len(list) - 1)), list[Len(list)])

\* removal_threshold = np.floor(2.0*self.eps*(self._n - 1))
RemovalThreshold(s) == (2 * s.eps.num * (s.n - 1)) \div s.eps.den

\* The while loop of merge_compress from cursors i, j (1-based here): the
\* in-place additions to g are kept in inc and ent, the output in merged.
RECURSIVE Sweep(_, _, _, _, _, _)
Sweep(i, j, inc, ent, merged, thr) ==
  LET \* lines 79-84 and 101-106: drop entries[j] into its right neighbour, or keep it
      EntriesStep ==
        IF j + 1 <= Len(ent) /\ ent[j].g + ent[j+1].g + ent[j+1].delta <= thr
        THEN Sweep(i, j + 1, inc, [ent EXCEPT ![j+1].g = @ + ent[j].g], merged, thr)
        ELSE Sweep(i, j + 1, inc, ent, Append(merged, ent[j]), thr)
  IN
  IF ~(i <= Len(inc) \/ j <= Len(ent)) THEN merged
  ELSE IF i = Len(inc) + 1 THEN EntriesStep
  ELSE IF j = Len(ent) + 1
  THEN IF i + 1 <= Len(inc) /\ inc[i].g + inc[i+1].g + inc[i+1].delta <= thr
       THEN Sweep(i + 1, j, [inc EXCEPT ![i+1].g = @ + inc[i].g], ent, merged, thr)
       ELSE Sweep(i + 1, j, inc, ent, Append(merged, inc[i]), thr)
  ELSE IF inc[i].val < ent[j].val
  THEN IF inc[i].g + ent[j].g + ent[j].delta <= thr
       THEN Sweep(i + 1, j, inc, [ent EXCEPT ![j].g = @ + inc[i].g], merged, thr)
       ELSE Sweep(i + 1, j, inc, ent,
                  Append(merged, [inc[i] EXCEPT !.delta = ent[j].g + ent[j].delta - inc[i].g]),
                  thr)
  ELSE EntriesStep

\* The entries a list of sortable candidates holds.
AsEntries(items) ==
  [k \in 1..Len(items) |-> Entry(items[k].val, items[k].g, items[k].delta)]

\* Lines 72-109 once the sort has its keys: sort, sweep, store.
Compacted(s, incoming) ==
  [s EXCEPT !.entries = Sweep(1, 1, AsEntries(SortedByVal(incoming)), s.entries,
                              <<>>, RemovalThreshold(s)),
            !.incoming = <<>>]

\* GKArray.merge_compress(entries): the outcome and the sketch it leaves.
\* The sort calls x.val on every element of the list, so a raw number in it
\* raises AttributeError at line 72, before any field is written.
merge_compress(s, entries) ==
  LET incoming == Candidates(s, entries)
  IN  IF \E k \in 1..Len(incoming) : ~HasVal(incoming[k])
      THEN [status |-> "AttributeError", sk |-> s]
      ELSE [status |-> "ok", sk |-> Compacted(s, incoming)]

\* -------------------------------------------------------------- size, add
\* GKArray.size(): [status, ret, sk].
size(s) ==
  IF Len(s.incoming) > 0
  THEN LET r == merge_compress(s, <<>>)
       IN  IF r.status = "ok"
           THEN [status |-> "ok", ret |-> <<IntNum(Len(r.sk.entries))>>, sk |-> r.sk]
           ELSE [status |-> r.status, ret |-> <<>>, sk |-> r.sk]
  ELSE [status |-> "ok", ret |-> <<IntNum(Len(s.entries))>>, sk |-> s]

\* self._avg += (val - self._avg)*(1.0/self._n), in exact arithmetic.
AvgAfter(avg, val, n) ==
  Rat(avg.num * n + val * avg.den - avg.num, avg.den * n)

\* int(1.0/self.eps) + 1, for eps # 0
CompressPeriod(s) == IntTrunc(s.eps.den, s.eps.num) + 1

\* Ingested with the max update hung on the min update as an elif: a value
\* that lowers the min never raises the max.
Ingested_elif_max(s, val) ==
  [s EXCEPT !.n = s.n + 1,
            !.sum = s.sum + val,
            !.avg = AvgAfter(s.avg, val, s.n + 1),
            !.incoming = Append(s.incoming, val),
            !.min = IF val < s.min THEN val ELSE s.min,
            !.max = IF val < s.min THEN s.max ELSE IF val > s.max THEN val ELSE s.max]

\* Lines 52-59 of add: the aggregates and the buffer.
Ingested(s, val) ==
  [s EXCEPT !.n = s.n + 1,
            !.sum = s.sum + val,
            !.avg = AvgAfter(s.avg, val, s.n + 1),
            !.incoming = Append(s.incoming, val),
            !.min = IF val < s.min THEN val ELSE s.min,
            !.max = IF val > s.max THEN val ELSE s.max]

\* GKArray.add(val): [status, sk].
\* Line 60 divides by eps and takes count modulo the period: either raises
\* ZeroDivisionError on a zero, after lines 52-59 have written the fields.
add(s, val) ==
  LET s1 == Ingested(s, val)
  IN  IF s1.eps.num = 0 \/ CompressPeriod(s1) = 0
      THEN [status |-> "ZeroDivisionError", sk |-> s1]
      ELSE IF PyMod(s1.n, CompressPeriod(s1)) = 0
      THEN merge_compress(s1, <<>>)
      ELSE [status |-> "ok", sk |-> s1]

\* ------------------------------------------------------------------ merge
\* int(other.eps*(other._n - 1)), for _n >= 1
Spread(s) == IntTrunc(s.eps.num * (s.n - 1), s.eps.den)

\* Lines 135-147: the synthetic entries built from other's compacted entries.
RECURSIVE InteriorEntries(_, _)
InteriorEntries(oe, i) ==
  IF i + 1 > Len(oe) THEN <<>>
  ELSE LET g == oe[i+1].g + oe[i+1].delta - oe[i].delta
       IN  (IF g > 0 THEN <<Entry(oe[i].val, g, 0)>> ELSE <<>>) \o InteriorEntries(oe, i + 1)

SyntheticEntries(other, spread) ==
  LET oe == other.entries
      g0 == oe[1].g + oe[1].delta - spread - 1
      gl == spread + 1 - oe[Len(oe)].delta
  IN  (IF g0 > 0 THEN <<Entry(other.min, g0, 0)>> ELSE <<>>)
        \o InteriorEntries(oe, 1)
        \o (IF gl > 0 THEN <<Entry(oe[Len(oe)].val, gl, 0)>> ELSE <<>>)

MaxEps(a, b) == IF RatLess(a, b) THEN b ELSE a
Min2(a, b) == IF b < a THEN b ELSE a
Max2(a, b) == IF b > a THEN b ELSE a

\* Lines 121-154 of merge, after the eps check: [status, self, other].
MergeEqualEps(self, other) ==
  IF other.n = 0
  THEN LET r == merge_compress(self, <<>>)
       IN  [status |-> r.status, self |-> r.sk, other |-> other]
  ELSE IF self.n = 0
  THEN LET r == merge_compress(other, <<>>)
       IN  IF r.status # "ok"
           THEN [status |-> r.status, self |-> self, other |-> r.sk]
           ELSE [status |-> "ok",
                 self |-> [self EXCEPT !.entries = AsEntries(r.sk.entries),
                                       !.min = r.sk.min, !.max = r.sk.max,
                                       !.n = r.sk.n, !.sum = r.sk.sum, !.avg = r.sk.avg],
                 other |-> r.sk]
  ELSE LET spread == Spread(other)
           r == merge_compress(other, <<>>)
       IN  IF r.status # "ok"
           THEN [status |-> r.status, self |-> self, other |-> r.sk]
           ELSE IF r.sk.entries = <<>>
           THEN \* other.entries[0] of an empty list
                [status |-> "IndexError", self |-> self, other |-> r.sk]
           ELSE LET entries == SyntheticEntries(r.sk, spread)
                    s1 == [self EXCEPT !.n = self.n + r.sk.n,
                                       !.eps = MaxEps(self.eps, r.sk.eps),
                                       !.min = Min2(self.min, r.sk.min),
                                       !.max = Max2(self.max, r.sk.max)]
                    r2 == merge_compress(s1, entries)
                IN  [status |-> r2.status, self |-> r2.sk, other |-> r.sk]

UnequalEps(self, other) ==
  [status |-> "UnequalEpsilonException", self |-> self, other |-> other]

\* merge with the eps check placed after the other._n == 0 special case.
merge_checks_eps_late(self, other) ==
  IF other.n = 0 THEN MergeEqualEps(self, other)
  ELSE IF self.eps # other.eps THEN UnequalEps(self, other)
  ELSE MergeEqualEps(self, other)

\* GKArray.merge(other): [status, self, other].
merge(self, other) ==
  IF self.eps # other.eps THEN UnequalEps(self, other)
  ELSE MergeEqualEps(self, other)

\* ---------------------------------------------------------------- queries
InRange(q) == ~(q.num < 0) /\ ~(q.num > q.den)

\* np.percentile(values, q*100), linear interpolation between the two order
\* statistics around position q*(len-1); nan on an empty list.
Percentile(values, q) ==
  LET sorted == SortedByVal([k \in 1..Len(values) |-> [val |-> values[k]]])
      pos == q.num * (Len(values) - 1)
      lo == pos \div q.den
      frac == pos % q.den
      hi == IF lo + 2 <= Len(values) THEN lo + 2 ELSE Len(values)
  IN  IF values = <<>> THEN NaN
      ELSE Num(Rat(sorted[lo+1].val * q.den + (sorted[hi].val - sorted[lo+1].val) * frac,
                   q.den))

EntryVals(s) == [k \in 1..Len(s.entries) |-> s.entries[k].val]

\* self._n < 1.0/self.eps, for eps # 0
SmallSample(s) ==
  IF s.eps.num > 0 THEN s.n * s.eps.num < s.eps.den ELSE s.n * s.eps.num > s.eps.den

\* int(q*(self._n - 1) + 1), for q >= 0
Rank(s, q) == ((q.num * (s.n - 1)) \div q.den) + 1

\* Lines 175-181: the 0-based index i at which the scan of quantile stops.
RECURSIVE ScanStop(_, _, _, _)
ScanStop(entries, i, g_sum, bound) ==
  IF ~(i < Len(entries)) THEN i
  ELSE IF g_sum + entries[i+1].g + entries[i+1].delta - 1 > bound THEN i
  ELSE ScanStop(entries, i + 1, g_sum + entries[i+1].g, bound)

\* Lines 169-185 of quantile, on a compacted sketch.
Answer(s, q) ==
  IF SmallSample(s) THEN Percentile(EntryVals(s), q)
  ELSE LET i == ScanStop(s.entries, 0, 0, Rank(s, q) + Spread(s))
       IN  IF i = 0 THEN IntNum(s.min) ELSE IntNum(s.entries[i].val)

\* GKArray.quantile(q): [status, ret, sk].
quantile(s, q) ==
  IF q.num < 0 \/ q.num > q.den \/ s.n = 0
  THEN [status |-> "ok", ret |-> <<NaN>>, sk |-> s]
  ELSE LET r == IF Len(s.incoming) > 0 THEN merge_compress(s, <<>>)
                ELSE [status |-> "ok", sk |-> s]
       IN  IF r.status # "ok"
           THEN [status |-> r.status, ret |-> <<>>, sk |-> r.sk]
           ELSE IF r.sk.eps.num = 0
           THEN \* 1.0/self.eps at line 169
                [status |-> "ZeroDivisionError", ret |-> <<>>, sk |-> r.sk]
           ELSE [status |-> "ok", ret |-> <<Answer(r.sk, q)>>, sk |-> r.sk]

\* q_values == sorted(q_values)
RECURSIVE IsSortedQ(_)
IsSortedQ(qs) ==
  Len(qs) < 2 \/ (RatLeq(qs[1], qs[2]) /\ IsSortedQ(Tail(qs)))

\* Lines 215-223: the inner loop of the co-scan at entry i (0-based), from
\* query j (0-based): the new j and the answers so far.
RECURSIVE CoScanInner(_, _, _, _, _, _)
CoScanInner(s, qs, i, j, g_sum, out) ==
  IF ~(j < Len(qs)) THEN [j |-> j, out |-> out]
  ELSE IF qs[j+1].num < 0 \/ qs[j+1].num > qs[j+1].den
  THEN CoScanInner(s, qs, i, j + 1, g_sum, Append(out, NaN))
  ELSE IF g_sum + s.entries[i+1].delta - 1 > Rank(s, qs[j+1]) + Spread(s)
  THEN CoScanInner(s, qs, i, j + 1, g_sum,
                   Append(out, IF i = 0 THEN IntNum(s.min) ELSE IntNum(s.entries[i].val)))
  ELSE [j |-> j, out |-> out]

\* Lines 225-230: what is left of q_values once the entries are used up.
RECURSIVE CoScanRest(_, _, _, _)
CoScanRest(s, qs, j, out) ==
  IF ~(j < Len(qs)) THEN out
  ELSE CoScanRest(s, qs, j + 1,
                  Append(out, IF qs[j+1].num < 0 \/ qs[j+1].num > qs[j+1].den
                              THEN NaN ELSE IntNum(s.max)))

\* Lines 213-232: the co-scan of entries and sorted q_values.
RECURSIVE CoScan(_, _, _, _, _, _)
CoScan(s, qs, i, j, g_sum, out) ==
  IF i < Len(s.entries) /\ j < Len(qs)
  THEN LET g == g_sum + s.entries[i+1].g
           r == CoScanInner(s, qs, i, j, g, out)
       IN  CoScan(s, qs, i + 1, r.j, g, r.out)
  ELSE CoScanRest(s, qs, j, out)

\* GKArray.quantiles(q_values): [status, ret, sk].  np.NaN is np.nan, as in
\* the numpy releases (before 2.0) that still have the name.
quantiles(s, qs) ==
  IF s.n = 0
  THEN [status |-> "ok", ret |-> [k \in 1..Len(qs) |-> NaN], sk |-> s]
  ELSE LET r == IF Len(s.incoming) > 0 THEN merge_compress(s, <<>>)
                ELSE [status |-> "ok", sk |-> s]
       IN  IF r.status # "ok"
           THEN [status |-> r.status, ret |-> <<>>, sk |-> r.sk]
           ELSE IF r.sk.eps.num = 0
           THEN \* 1.0/self.eps at line 200
                [status |-> "ZeroDivisionError", ret |-> <<>>, sk |-> r.sk]
           ELSE IF SmallSample(r.sk)
           THEN [status |-> "ok",
                 ret |-> [k \in 1..Len(qs) |->
                            IF InRange(qs[k]) THEN Percentile(EntryVals(r.sk), qs[k])
                            ELSE NaN],
                 sk |-> r.sk]
           ELSE IF ~IsSortedQ(qs)
           THEN [status |-> "ok",
                 ret |-> [k \in 1..Len(qs) |-> quantile(r.sk, qs[k]).ret[1]],
                 sk |-> r.sk]
           ELSE [status |-> "ok", ret |-> CoScan(r.sk, qs, 0, 0, 0, <<>>), sk |-> r.sk]

\* ---------------------------------------------------------------- actions
\* sk[i].add(v)
Add(i, v) ==
  /\ sk[i].n < MaxN
  /\ LET r == add(sk[i], v)
     IN  /\ sk' = [sk EXCEPT ![i] = r.sk]
         /\ last' = Call("add", i, 0, v, NoQ, <<>>, r.status, <<>>)
         /\ stream' = [stream EXCEPT ![i] = Append(@, v)]
         /\ UNCHANGED absorbed

\* sk[i].size()
Size(i) ==
  LET r == size(sk[i])
  IN  /\ sk' = [sk EXCEPT ![i] = r.sk]
      /\ last' = Call("size", i, 0, 0, NoQ, <<>>, r.status, r.ret)
      /\ UNCHANGED <<stream, absorbed>>

\* sk[i].quantile(q)
Quantile(i, q) ==
  LET r == quantile(sk[i], q)
  IN  /\ sk' = [sk EXCEPT ![i] = r.sk]
      /\ last' = Call("quantile", i, 0, 0, q, <<>>, r.status, r.ret)
      /\ UNCHANGED <<stream, absorbed>>

\* sk[i].quantiles(qs)
Quantiles(i, qs) ==
  LET r == quantiles(sk[i], qs)
  IN  /\ sk' = [sk EXCEPT ![i] = r.sk]
      /\ last' = Call("quantiles", i, 0, 0, NoQ, qs, r.status, r.ret)
      /\ UNCHANGED <<stream, absorbed>>

\* sk[i].merge(sk[j])
Merge(i, j) ==
  /\ i # j
  /\ LET r == merge(sk[i], sk[j])
     IN  /\ sk' = [sk EXCEPT ![i] = r.self, ![j] = r.other]
         /\ last' = Call("merge", i, j, 0, NoQ, <<>>, r.status, <<>>)
         /\ IF r.status = "ok"
            THEN /\ stream' = [stream EXCEPT ![i] = @ \o stream[j]]
                 /\ absorbed' = [absorbed EXCEPT ![i] = @ + Len(stream[j])]
            ELSE UNCHANGED <<stream, absorbed>>

Next ==
  \/ \E i \in Sketches, v \in Vals : Add(i, v)
  \/ \E i \in Sketches : Size(i)
  \/ \E i \in Sketches, q \in Qs : Quantile(i, q)
  \/ \E i \in Sketches, qs \in QLists : Quantiles(i, qs)
  \/ \E i \in Sketches, j \in Sketches : Merge(i, j)

Spec == Init /\ [][Next]_vars

\* ----------------------------------------------------------- construction
\* The eps a sketch may be constructed with: the error bounds above, 0, -1/2.
EpsArgs == EpsSet \cup {[num |-> 0, den |-> 1], [num |-> -1, den |-> 2]}

\* GKArray(eps): [status, sk].  __init__ stores eps as given.
construct(eps) == [status |-> "ok", sk |-> NewSketch(eps)]

\* sk[i] = GKArray(e): object i is replaced by a newly constructed sketch,
\* if the construction returns one.  last.q holds the eps asked for.
New(i, e) ==
  LET r == construct(e)
  IN  /\ sk' = IF r.status = "ok" THEN [sk EXCEPT ![i] = r.sk] ELSE sk
      /\ last' = Call("new", i, 0, 0, e, <<>>, r.status, <<>>)
      /\ stream' = IF r.status = "ok" THEN [stream EXCEPT ![i] = <<>>] ELSE stream
      /\ absorbed' = IF r.status = "ok" THEN [absorbed EXCEPT ![i] = 0] ELSE absorbed

NextNew ==
  \/ Next
  \/ \E i \in Sketches, e \in EpsArgs : New(i, e)

\* The sketches of Spec, with construction from any eps as one more call.
SpecNew == Init /\ [][NextNew]_vars

\* ------------------------------------------------- direct merge_compress
\* The lists of entries merge_compress is called with directly: none (the
\* default argument), one entry, two entries out of order.
EntryLists ==
  { <<>>, <<Entry(1, 1, 0)>>, <<Entry(2, 1, 0), Entry(1, 1, 0)>> }

RECURSIVE SumG(_)
SumG(entries) == IF entries = <<>> THEN 0 ELSE entries[1].g + SumG(Tail(entries))

\* sk[i].merge_compress(es), called from outside the class.  The rank mass of
\* the entries handed in is booked in absorbed[i]: it did not come by add.
MergeCompress(i, es) ==
  /\ Len(sk[i].entries) + Len(es) <= MaxEntries
  /\ LET r == merge_compress(sk[i], es)
     IN  /\ sk' = [sk EXCEPT ![i] = r.sk]
         /\ last' = [Call("merge_compress", i, 0, 0, NoQ, <<>>, r.status, <<>>)
                       EXCEPT !.entries = es]
         /\ absorbed' = IF r.status = "ok"
                         THEN [absorbed EXCEPT ![i] = @ + SumG(es)]
                         ELSE absorbed
         /\ UNCHANGED stream

NextDirect ==
  \/ Next
  \/ \E i \in Sketches, es \in EntryLists : MergeCompress(i, es)

\* Two sketches constructed with eps = 1/2.
InitDirect ==
  /\ Init
  /\ \A i \in Sketches : sk[i].eps = [num |-> 1, den |-> 2]

\* The calls of Spec on two sketches of eps 1/2, with the direct call of
\* merge_compress as one more call.
SpecDirect == InitDirect /\ [][NextDirect]_vars

\* ----------------------------------------------------------------- claims
SortedStream(i) == SortedByVal([k \in 1..Len(stream[i]) |-> [val |-> stream[i][k]]])

\* Sketch i has seen at least 1/eps values.
LargeSample(i) == sk[i].n * sk[i].eps.num >= sk[i].eps.den

\* v is a number of stream i found at a 0-indexed position r of the sorted
\* stream with |r - q*(n-1)| <= eps*n, n the length of the stream.
WithinBound(v, i, q) ==
  LET n == Len(stream[i])
      eps == sk[i].eps
  IN  /\ ~v.nan
      /\ \E r \in 0..(n - 1) :
           /\ SortedStream(i)[r+1].val * v.den = v.num
           /\ Abs(r * q.den - q.num * (n - 1)) * eps.den <= eps.num * n * q.den

\* C1: error bound.  After quantile(q), q in [0,1], on a sketch fed by add
\* alone with n >= 1/eps values, the call has returned a value of the stream
\* whose position in the sorted stream is within eps*n of q*(n-1).
C1_ErrorBound ==
  ( /\ last.op = "quantile"
    /\ InRange(last.q)
    /\ absorbed[last.self] = 0
    /\ LargeSample(last.self) )
  => /\ last.status = "ok"
     /\ Len(last.ret) = 1
     /\ WithinBound(last.ret[1], last.self, last.q)

\* C2: mergeability.  After A.merge(B) of two sketches fed by add alone, with
\* equal eps, B not empty and n >= 1/eps values in all, the merge has returned
\* normally and every quantile(q) of A, q in [0,1], is within eps*n of
\* q*(n-1) in the sorted whole stream.
C2_Mergeability ==
  LET A == last.self
      B == last.other
      done == last.status = "ok"
      n == Len(stream[A]) + (IF done THEN 0 ELSE Len(stream[B]))
  IN  ( /\ last.op = "merge"
        /\ sk[A].eps = sk[B].eps
        /\ Len(stream[B]) > 0
        /\ absorbed[B] = 0
        /\ absorbed[A] = (IF done THEN Len(stream[B]) ELSE 0)
        /\ n * sk[A].eps.num >= sk[A].eps.den )
      => /\ done
         /\ \A q \in Qs : InRange(q) =>
              LET r == quantile(sk[A], q)
              IN  r.status = "ok" /\ WithinBound(r.ret[1], A, q)

\* C3: ingest has no error conditions.  Every add returns normally, also the
\* add on which count reaches a multiple of floor(1/eps)+1, and so do size()
\* and quantile(q) afterwards.
C3_IngestNeverRaises ==
  last.op \in {"add", "size", "quantile"} => last.status = "ok"

\* C4: merge of two sketches with different eps raises
\* UnequalEpsilonException and leaves every field of both sketches as it was.
C4_UnequalEpsLeavesBoth ==
  [][ (last'.op = "merge" /\ sk[last'.self].eps # sk[last'.other].eps)
        => (last'.status = "UnequalEpsilonException" /\ sk' = sk) ]_vars

\* C4 happens: a merge was refused for its eps, with values buffered in the
\* one sketch and none in the other.
C4_Witness ==
  /\ last.op = "merge"
  /\ last.status = "UnequalEpsilonException"
  /\ sk[last.self].n > 0
  /\ sk[last.other].n = 0

\* C5: quantile(q) returns NaN whenever q < 0, q > 1 or count is 0, and
\* quantiles(q_values) returns a list as long as q_values with NaN at exactly
\* the positions whose q is outside [0,1] (at every position when count is 0).
C5_NaNSentinel ==
  /\ ( last.op = "quantile" /\ (~InRange(last.q) \/ sk[last.self].n = 0) )
       => (last.status = "ok" /\ last.ret = <<NaN>>)
  /\ last.op = "quantiles"
       => /\ last.status = "ok"
          /\ Len(last.ret) = Len(last.qs)
          /\ \A k \in 1..Len(last.qs) :
               last.ret[k].nan <=> (~InRange(last.qs[k]) \/ sk[last.self].n = 0)

\* C6: monotonicity.  On every non-empty sketch, for q1 < q2 in [0,1],
\* quantile(q1) and quantile(q2) return numbers with quantile(q1) <= quantile(q2).
C6_Monotone ==
  \A i \in Sketches : \A q1 \in Qs, q2 \in Qs :
    (sk[i].n > 0 /\ InRange(q1) /\ InRange(q2) /\ RatLess(q1, q2))
      => LET r1 == quantile(sk[i], q1)
             r2 == quantile(r1.sk, q2)
         IN  /\ r1.status = "ok"
             /\ r2.status = "ok"
             /\ ValLeq(r1.ret[1], r2.ret[1])

\* C7: rank mass.  In every state the g of the entries and the length of the
\* buffer add up to count; and right after a compaction (after size(), after
\* an add that brought count to a multiple of floor(1/eps)+1, after a merge
\* with equal eps) the g of the entries of the compacted sketch alone add up
\* to its count.
C7_RankMass ==
  /\ \A i \in Sketches :
       SumG(sk[i].entries) + Len(sk[i].incoming) = sk[i].n
  /\ ( \/ last.op = "size"
       \/ /\ last.op = "add"
          /\ sk[last.self].n % CompressPeriod(sk[last.self]) = 0
       \/ /\ last.op = "merge"
          /\ sk[last.self].eps = sk[last.other].eps )
       => SumG(sk[last.self].entries) = sk[last.self].n

\* C8: merge of two non-empty sketches with equal eps returns normally and
\* leaves in self the sum of the two sums and, as mean, that sum divided by
\* the sum of the two counts.
C8_MergeSumMean ==
  [][ ( /\ last'.op = "merge"
        /\ sk[last'.self].eps = sk[last'.other].eps
        /\ sk[last'.self].n > 0
        /\ sk[last'.other].n > 0 )
        => LET a == sk[last'.self]
               b == sk[last'.other]
           IN  /\ last'.status = "ok"
               /\ sk'[last'.self].sum = a.sum + b.sum
               /\ sk'[last'.self].avg = Rat(a.sum + b.sum, a.n + b.n) ]_vars

\* C9: merge of two non-empty sketches with equal eps returns normally; then
\* self.count is the sum of the counts, self.min the smaller min, self.max the
\* larger max, self.eps as before, and other keeps count, sum, mean, min, max
\* and eps and has an empty buffer.
C9_MergeAggregates ==
  [][ ( /\ last'.op = "merge"
        /\ sk[last'.self].eps = sk[last'.other].eps
        /\ sk[last'.self].n > 0
        /\ sk[last'.other].n > 0 )
        => LET a == sk[last'.self]
               b == sk[last'.other]
               a2 == sk'[last'.self]
               b2 == sk'[last'.other]
           IN  /\ last'.status = "ok"
               /\ a2.n = a.n + b.n
               /\ a2.min = Min2(a.min, b.min)
               /\ a2.max = Max2(a.max, b.max)
               /\ a2.eps = a.eps
               /\ b2.n = b.n /\ b2.sum = b.sum /\ b2.avg = b.avg
               /\ b2.min = b.min /\ b2.max = b.max /\ b2.eps = b.eps
               /\ b2.incoming = <<>> ]_vars

\* C10: merge into an empty sketch with equal eps returns normally and leaves
\* in self the count, sum, mean, min, max and entries of other's compacted
\* state.
C10_MergeIntoEmptyCopies ==
  [][ ( /\ last'.op = "merge"
        /\ sk[last'.self].eps = sk[last'.other].eps
        /\ sk[last'.self].n = 0 )
        => LET a2 == sk'[last'.self]
               b2 == sk'[last'.other]
           IN  /\ last'.status = "ok"
               /\ b2.incoming = <<>>
               /\ a2.n = b2.n /\ a2.sum = b2.sum /\ a2.avg = b2.avg
               /\ a2.min = b2.min /\ a2.max = b2.max
               /\ a2.entries = b2.entries ]_vars

\* C11: batch query equals single query.  quantiles(q_values) returns a list
\* as long as q_values whose k-th element is what quantile(q_values[k])
\* returns on the same sketch (NaN where that is NaN).
C11_BatchEqualsSingle ==
  last.op = "quantiles"
    => /\ last.status = "ok"
       /\ Len(last.ret) = Len(last.qs)
       /\ \A k \in 1..Len(last.qs) :
            LET r == quantile(sk[last.self], last.qs[k])
            IN  r.status = "ok" /\ last.ret[k] = r.ret[1]

RECURSIVE SumSeq(_)
SumSeq(xs) == IF xs = <<>> THEN 0 ELSE xs[1] + SumSeq(Tail(xs))

\* The smallest and the largest of a stream (the infinities of a new sketch
\* when it is empty).
MinOf(xs) == IF xs = <<>> THEN PosInf ELSE CHOOSE x \in {xs[k] : k \in 1..Len(xs)} :
                                            \A k \in 1..Len(xs) : x <= xs[k]
MaxOf(xs) == IF xs = <<>> THEN NegInf ELSE CHOOSE x \in {xs[k] : k \in 1..Len(xs)} :
                                            \A k \in 1..Len(xs) : x >= xs[k]

Aggregates(s) == <<s.n, s.sum, s.avg, s.min, s.max>>

\* C13: aggregate exactness under ingest.  On a sketch fed by add alone,
\* count is the number of adds, sum their exact sum, min and max the smallest
\* and largest value added, whether or not a compaction ran in between; and a
\* call that only compacts (size, quantile, quantiles) changes none of count,
\* sum, mean, min and max.
C13_AggregatesExact ==
  /\ [](\A i \in Sketches : absorbed[i] = 0 =>
          /\ sk[i].n = Len(stream[i])
          /\ sk[i].sum = SumSeq(stream[i])
          /\ sk[i].min = MinOf(stream[i])
          /\ sk[i].max = MaxOf(stream[i]))
  /\ [][ last'.op \in {"size", "quantile", "quantiles"}
           => \A i \in Sketches : Aggregates(sk'[i]) = Aggregates(sk[i]) ]_vars

\* C13 happens: an add has run the compaction (count reached a multiple of
\* the period) on a sketch fed by add alone that holds two different values.
C13_Witness ==
  /\ last.op = "add"
  /\ absorbed[last.self] = 0
  /\ sk[last.self].n % CompressPeriod(sk[last.self]) = 0
  /\ sk[last.self].min < sk[last.self].max

\* C16: compaction trigger and buffer bound.  The buffer is empty right after
\* every add that brings count to a multiple of floor(1/eps)+1 and right after
\* every size(), and it never holds more than floor(1/eps) values.
C16_BufferBound ==
  /\ \A i \in Sketches : Len(sk[i].incoming) <= CompressPeriod(sk[i]) - 1
  /\ (last.op = "add" /\ sk[last.self].n % CompressPeriod(sk[last.self]) = 0)
       => sk[last.self].incoming = <<>>
  /\ last.op = "size" => sk[last.self].incoming = <<>>

\* C17: compaction wraps raw buffered values.  A compaction (by size(), or by
\* merge_compress() called with no entries) of a non-empty buffer with
\* removal_threshold 0 on a sketch with no entries returns normally and
\* leaves exactly one entry (v, 1, 0) per buffered value v, in ascending
\* order, and an empty buffer.
C17_CompactionWrapsRaw ==
  [][ ( /\ \/ last'.op = "size"
           \/ last'.op = "merge_compress" /\ last'.entries = <<>>
        /\ sk[last'.self].entries = <<>>
        /\ sk[last'.self].incoming # <<>>
        /\ RemovalThreshold(sk[last'.self]) = 0 )
        => LET buf == sk[last'.self].incoming
           IN  /\ last'.status = "ok"
               /\ sk'[last'.self].incoming = <<>>
               /\ sk'[last'.self].entries =
                    SortedByVal([k \in 1..Len(buf) |-> Entry(buf[k], 1, 0)]) ]_vars

\* C18: re-compaction is a no-op.  merge(other) with other.count = 0 and
\* equal eps on a sketch whose buffer is empty returns normally and changes
\* no field of either sketch; and size() returns an entry count that a second
\* size() right after it returns again.
C18_RecompactionNoOp ==
  [][ /\ ( /\ last'.op = "merge"
           /\ sk[last'.self].eps = sk[last'.other].eps
           /\ sk[last'.self].incoming = <<>>
           /\ sk[last'.other].n = 0 )
           => (last'.status = "ok" /\ sk' = sk)
      /\ last'.op = "size"
           => LET again == size(sk'[last'.self])
              IN  /\ last'.status = "ok"
                  /\ again.status = "ok"
                  /\ again.ret = last'.ret ]_vars

\* C12: construction fails for a non-positive error bound.  GKArray(eps)
\* with eps <= 0 ends in an error and no sketch with such an eps exists.
C12_NonPositiveEpsRejected ==
  /\ (last.op = "new" /\ last.q.num <= 0) => last.status # "ok"
  /\ \A i \in Sketches : sk[i].eps.num > 0

====
